---- MODULE Spec2Model ----
(***************************************************************************)
(* A model of code_pytorch.py: the Clebsch-Gordan coupling engine          *)
(* (get_conversion, precompute_transformation, compress, the unrolled and  *)
(* the channel-expanding combiners, the combiner registry) and the batch   *)
(* primitives around it (Accumulator, CentralSplitter, CentralUniter,      *)
(* get_forces).                                                            *)
(*                                                                         *)
(* Numbers.  The coefficients the code computes are products of table      *)
(* entries with the weights 1, 0, +-1/sqrt(2) and the factors +-sqrt(2).   *)
(* With integer table entries all of them lie in (Z + Z*sqrt(2))/2, so a   *)
(* coefficient is modelled exactly as a pair <<a, b>> that stands for      *)
(* (a + b*sqrt(2))/2.  Floating-point rounding is not modelled.            *)
(* The magnetic axis of a table or tensor is 0-based as in the source (a   *)
(* function with domain 0..n-1); a list built by append is a sequence.     *)
(***************************************************************************)
EXTENDS Integers, Sequences, FiniteSets, TLC

VARIABLES
    pc,                 \* position of the driver: which call has returned
    sequence,           \* compress: the input list of [m1, m2, multiplier]
    epsilon,            \* compress: the tolerance, in units of 1/2
    compressed,         \* compress: the returned list
    clebsch,            \* ClebschCombiningSingleUnrolled: the table slice
    lambd,              \* ClebschCombiningSingleUnrolled: the target order
    unrolled,           \* ClebschCombiningSingleUnrolled: the object's fields
    X1, X2,             \* ClebschCombiningSingleUnrolled.forward: the inputs
    result,             \* ClebschCombiningSingleUnrolled.forward: the outcome
                        \* on each device it has been run on
    task,               \* ClebschCombiningSingle: the task list or None
    chan1, chan2,       \* ClebschCombiningSingle.forward: channel counts
    single_out,         \* ClebschCombiningSingle.forward: returned channels
    table_shape,        \* ClebschCombining: clebsch.shape[0..2]
    lambd_max,          \* ClebschCombining: self.lambd_max
    single_combiners,   \* ClebschCombining: keys of the ModuleDict, or an error
    F1, F2,             \* ClebschCombining.forward: the two feature mappings
    combined,           \* ClebschCombining.forward: the returned mapping
    features,           \* Accumulator / CentralSplitter: per-atom features
    central_species,    \* CentralSplitter / CentralUniter: species labels
    splitted,           \* CentralSplitter.forward: the returned mapping
    united,             \* CentralUniter.forward: the returned mapping
    structural_indices, \* Accumulator / get_forces: structure of each atom
    accumulated,        \* Accumulator.forward: the returned mapping
    target_X_der,       \* get_forces: d target / d X, per key and atom row
    X_pos_der,          \* get_forces: d X / d position, per key and pair row
    central_indices,    \* get_forces: the central atom of each pair row
    derivative_indices, \* get_forces: the displaced atom of each pair row
    forces_predictions  \* get_forces: the returned tensor

compress_vars == <<sequence, epsilon, compressed>>
unrolled_vars == <<clebsch, lambd, unrolled, X1, X2, result>>
single_vars   == <<task, chan1, chan2, single_out>>
registry_vars == <<table_shape, lambd_max, single_combiners, F1, F2, combined>>
species_vars  == <<features, central_species, splitted, united>>
accum_vars    == <<structural_indices, accumulated>>
forces_vars   == <<target_X_der, X_pos_der, central_indices,
                   derivative_indices, forces_predictions>>
vars == <<pc, compress_vars, unrolled_vars, single_vars, registry_vars,
          species_vars, accum_vars, forces_vars>>

None == "None"

----------------------------------------------------------------------------
(* Bounds of the model.                                                    *)

MaxLen == 3         \* compress: longest input list
MaxIndex == 1       \* compress: m1 and m2 range over 0..MaxIndex

----------------------------------------------------------------------------
(* Exact arithmetic on (Z + Z*sqrt(2))/2.                                  *)

Num(n) == <<2 * n, 0>>
NumAdd(x, y) == <<x[1] + y[1], x[2] + y[2]>>
NumNeg(x) == <<-x[1], -x[2]>>
\* ((a + b s)/2) * ((c + d s)/2) = ((ac + 2bd) + (ad + bc) s)/4, s = sqrt(2)
NumMul(x, y) ==
    <<(x[1] * y[1] + 2 * x[2] * y[2]) \div 2, (x[1] * y[2] + x[2] * y[1]) \div 2>>
\* b*sqrt(2) > c, by comparing squares
SqrtGt(b, c) ==
    IF b >= 0 THEN c < 0 \/ 2 * b * b > c * c
              ELSE c < 0 /\ 2 * b * b < c * c
\* (a + b*sqrt(2))/2 > e/2
NumGt(x, e) == SqrtGt(x[2], e - x[1])
np_abs(x) == IF NumGt(x, 0) THEN x ELSE NumNeg(x)

Range(s) == {s[i] : i \in DOMAIN s}

\* the outcome of a call: a returned value or a raised exception
Return(v) == [raised |-> None, value |-> v]
Raise(e) == [raised |-> e, value |-> None]

----------------------------------------------------------------------------
(* compress(sequence, epsilon), lines 205-223.                             *)

\* lines 210-213: the pair of entry i is already in result
already(res, m1, m2) ==
    \E j \in 1..Len(res) : m1 = res[j][1] /\ m2 = res[j][2]

\* lines 216-219: the sum of the multipliers of the pair over entries j..end
RECURSIVE tail_sum(_, _, _, _)
tail_sum(seq, j, m1, m2) ==
    IF j > Len(seq) THEN Num(0)
    ELSE IF m1 = seq[j][1] /\ m2 = seq[j][2]
         THEN NumAdd(seq[j][3], tail_sum(seq, j + 1, m1, m2))
         ELSE tail_sum(seq, j + 1, m1, m2)

\* lines 207-221: the loop over i, entries are 1-based in the model
RECURSIVE compress_loop(_, _, _, _)
compress_loop(seq, eps, i, res) ==
    IF i > Len(seq) THEN res
    ELSE LET m1 == seq[i][1]
             m2 == seq[i][2]
             multiplier == tail_sum(seq, i, m1, m2)
         IN  IF ~already(res, m1, m2) /\ NumGt(np_abs(multiplier), eps)
             THEN compress_loop(seq, eps, i + 1,
                                Append(res, <<m1, m2, multiplier>>))
             ELSE compress_loop(seq, eps, i + 1, res)

compress(seq, eps) == compress_loop(seq, eps, 1, <<>>)

----------------------------------------------------------------------------
(* get_conversion, multiply, multiply_sequence, lines 177-203.             *)

InvSqrt2 == <<0, 1>>        \* 1.0 / np.sqrt(2)
Sqrt2 == <<0, 2>>           \* np.sqrt(2)
Abs(n) == IF n < 0 THEN -n ELSE n
Max(a, b) == IF a > b THEN a ELSE b
Min(a, b) == IF a < b THEN a ELSE b

\* returns <<X_re, X_im>>, each an <<index, weight>> pair
get_conversion(l, m) ==
    IF m < 0 THEN <<<<Abs(m) + l, InvSqrt2>>, <<m + l, NumNeg(InvSqrt2)>>>>
    ELSE IF m = 0 THEN <<<<l, Num(1)>>, <<l, Num(0)>>>>
    ELSE IF m % 2 = 0
         THEN <<<<m + l, InvSqrt2>>, <<-m + l, InvSqrt2>>>>
         ELSE <<<<m + l, NumNeg(InvSqrt2)>>, <<-m + l, NumNeg(InvSqrt2)>>>>

multiply(first, second, multiplier) ==
    <<first[1], second[1], NumMul(NumMul(first[2], second[2]), multiplier)>>

multiply_sequence(seq, multiplier) ==
    [k \in 1..Len(seq) |-> <<seq[k][1], seq[k][2], NumMul(seq[k][3], multiplier)>>]

----------------------------------------------------------------------------
(* precompute_transformation(clebsch, l1, l2, lambd), lines 225-256.       *)
(* clebsch is the table slice: clebsch[i][j] is an integer for i in        *)
(* 0..shape[0]-1, j in 0..shape[1]-1.                                      *)

DefaultEpsilon == 0     \* epsilon = 1e-15: in exact arithmetic on the bounded
                        \* values of the model, |x| > 1e-15 iff x # 0

shape0(t) == Cardinality(DOMAIN t)
shape1(t) == IF shape0(t) = 0 THEN 0 ELSE Cardinality(DOMAIN t[0])

\* numpy indexing of an axis of length n: -n..-1 wrap around, anything else
\* outside 0..n-1 raises IndexError
index_ok(n, i) == -n <= i /\ i < n
wrap(n, i) == IF i < 0 THEN i + n ELSE i

\* clebsch[i, j]; an out-of-range read (an IndexError in the source) is
\* kept total here and reads as 0: table_reads below exposes it
table_at(t, i, j) ==
    IF index_ok(shape0(t), i) /\ index_ok(shape1(t), j)
    THEN Num(t[wrap(shape0(t), i)][wrap(shape1(t), j)])
    ELSE Num(0)

\* m2_range with a fault: the bound that keeps m1 = mu - m2 inside -l1..l1 is lost
m2_range_unclipped(l1, l2, mu) == (-l2)..l2

\* line 230: the values of m2 for one mu
m2_range(l1, l2, mu) == Max(-l2, mu - l1)..Min(l2, mu + l1)

\* lines 230-240: the body of the m2 loop, m2 = lo..hi, appending to
\* acc = <<real_now, imag_now>>
RECURSIVE m2_loop(_, _, _, _, _, _, _)
m2_loop(t, l1, l2, mu, m2, hi, acc) ==
    IF m2 > hi THEN acc
    ELSE LET m1 == mu - m2
             c1 == get_conversion(l1, m1)
             c2 == get_conversion(l2, m2)
             X1_re == c1[1]
             X1_im == c1[2]
             X2_re == c2[1]
             X2_im == c2[2]
             cg == table_at(t, m1 + l1, m2 + l2)
             real_now == acc[1] \o <<multiply(X1_re, X2_re, cg),
                                     multiply(X1_im, X2_im, NumNeg(cg))>>
             imag_now == acc[2] \o <<multiply(X1_re, X2_im, cg),
                                     multiply(X1_im, X2_re, cg)>>
         IN  m2_loop(t, l1, l2, mu, m2 + 1, hi, <<real_now, imag_now>>)

\* lines 242-243: the parity swap of <<real_now, imag_now>>
parity_swap(l1, l2, lam, acc) ==
    IF (l1 + l2 - lam) % 2 = 1
    THEN <<multiply_sequence(acc[2], Num(-1)), acc[1]>>
    ELSE acc

\* lines 227-252: the loop over mu, res is the list result (0-based)
RECURSIVE mu_loop(_, _, _, _, _, _)
mu_loop(t, l1, l2, lam, mu, res) ==
    IF mu > lam THEN res
    ELSE LET rng == m2_range(l1, l2, mu)
             raw == IF rng = {} THEN <<<<>>, <<>>>>
                    ELSE m2_loop(t, l1, l2, mu,
                                 CHOOSE x \in rng : \A y \in rng : x <= y,
                                 CHOOSE x \in rng : \A y \in rng : x >= y,
                                 <<<<>>, <<>>>>)
             now == parity_swap(l1, l2, lam, raw)
             real_now == now[1]
             imag_now == now[2]
             next ==
                 IF mu > 0
                 THEN IF mu % 2 = 0
                      THEN [res EXCEPT
                              ![mu + lam] = multiply_sequence(real_now, Sqrt2),
                              ![-mu + lam] = multiply_sequence(imag_now, Sqrt2)]
                      ELSE [res EXCEPT
                              ![mu + lam] =
                                  multiply_sequence(real_now, NumNeg(Sqrt2)),
                              ![-mu + lam] =
                                  multiply_sequence(imag_now, NumNeg(Sqrt2))]
                 ELSE [res EXCEPT ![lam] = real_now]
         IN  mu_loop(t, l1, l2, lam, mu + 1, next)

precompute_transformation(t, l1, l2, lam) ==
    LET res == mu_loop(t, l1, l2, lam, 0, [i \in 0..(2 * lam) |-> <<>>])
    IN  [i \in DOMAIN res |-> compress(res[i], DefaultEpsilon)]

\* lines 227-240: the table positions the loops read
table_reads(l1, l2, lam) ==
    UNION {{<<(mu - m2) + l1, m2 + l2>> : m2 \in m2_range(l1, l2, mu)} :
           mu \in 0..lam}

----------------------------------------------------------------------------
(* ClebschCombiningSingleUnrolled, lines 258-300.                          *)

\* lines 268-274: the flattened list of <<m1, m2, multiplier, mu>>
RECURSIVE flatten(_, _, _)
flatten(transformation, lam, mu) ==
    IF mu > 2 * lam THEN <<>>
    ELSE [k \in 1..Len(transformation[mu]) |->
              <<transformation[mu][k][1], transformation[mu][k][2],
                transformation[mu][k][3], mu>>]
         \o flatten(transformation, lam, mu + 1)

\* __init__, lines 259-278: the fields of the constructed object
unrolled_init(t, lam) ==
    LET l1 == (shape0(t) - 1) \div 2
        l2 == (shape1(t) - 1) \div 2
        transformation == precompute_transformation(t, l1, l2, lam)
        flat == flatten(transformation, lam, 0)
    IN  [lambd |-> lam, l1 |-> l1, l2 |-> l2,
         transformation |-> transformation,
         m1_aligned |-> [k \in 1..Len(flat) |-> flat[k][1]],
         m2_aligned |-> [k \in 1..Len(flat) |-> flat[k][2]],
         multipliers |-> [k \in 1..Len(flat) |-> flat[k][3]],
         mu |-> [k \in 1..Len(flat) |-> flat[k][4]]]

\* A tensor [batch, channels, m] is a function row -> (m -> value), a row
\* being one (batch, channel) position.
Rows(X) == DOMAIN X
Width(X) == IF DOMAIN X = {} THEN 0 ELSE Cardinality(DOMAIN X[0])
x_at(X, r, m) == X[r][wrap(Width(X), m)]
zeros(rows, lam) == [r \in rows |-> [m \in 0..(2 * lam) |-> Num(0)]]

\* X1[:, :, m1] * X2[:, :, m2] * multiplier at row r
product(A, B, r, m1, m2, multiplier) ==
    NumMul(Num(x_at(A, r, m1) * x_at(B, r, m2)), multiplier)

\* index_add_ with a fault: the scatter overwrites the slot instead of adding
RECURSIVE index_copy_(_, _, _, _)
index_copy_(res, mu, contributions, k) ==
    IF k > Len(mu) THEN res
    ELSE index_copy_(
             [r \in DOMAIN res |->
                 [res[r] EXCEPT ![mu[k]] = contributions[r][k]]],
             mu, contributions, k + 1)

\* line 292: result.index_add_(2, mu, contributions), entries k..end
RECURSIVE index_add_(_, _, _, _)
index_add_(res, mu, contributions, k) ==
    IF k > Len(mu) THEN res
    ELSE index_add_(
             [r \in DOMAIN res |->
                 [res[r] EXCEPT ![mu[k]] = NumAdd(@, contributions[r][k])]],
             mu, contributions, k + 1)

\* lines 287-293: gather, multiply, scatter
forward_cuda(self, A, B) ==
    LET contributions ==
            [r \in Rows(A) |->
                [k \in 1..Len(self.mu) |->
                    product(A, B, r, self.m1_aligned[k], self.m2_aligned[k],
                            self.multipliers[k])]]
    IN  index_add_(zeros(Rows(A), self.lambd), self.mu, contributions, 1)

\* lines 297-298: the inner loop over the triples of transformation[mu]
RECURSIVE triple_loop(_, _, _, _, _, _)
triple_loop(self, A, B, res, mu, k) ==
    IF k > Len(self.transformation[mu]) THEN res
    ELSE LET el == self.transformation[mu][k]
         IN  triple_loop(self, A, B,
                 [r \in DOMAIN res |->
                     [res[r] EXCEPT
                         ![mu] = NumAdd(@, product(A, B, r, el[1], el[2], el[3]))]],
                 mu, k + 1)

\* lines 296-298: the outer loop over mu
RECURSIVE direct_loop(_, _, _, _, _)
direct_loop(self, A, B, res, mu) ==
    IF mu > 2 * self.lambd THEN res
    ELSE direct_loop(self, A, B, triple_loop(self, A, B, res, mu, 1), mu + 1)

\* lines 295-300: direct accumulation
forward_cpu(self, A, B) ==
    direct_loop(self, A, B, zeros(Rows(A), self.lambd), 0)

\* an index of the coefficient sets that X1 or X2 does not have
bad_index(self, A, B) ==
    \E mu \in DOMAIN self.transformation :
        \E k \in 1..Len(self.transformation[mu]) :
            \/ ~index_ok(Width(A), self.transformation[mu][k][1])
            \/ ~index_ok(Width(B), self.transformation[mu][k][2])

\* forward, lines 281-300
unrolled_forward(self, A, B, device) ==
    IF bad_index(self, A, B) THEN Raise("IndexError")
    ELSE IF device = "cuda" THEN Return(forward_cuda(self, A, B))
    ELSE Return(forward_cpu(self, A, B))

----------------------------------------------------------------------------
(* ClebschCombiningSingle, lines 310-335.  A task is a record: is_none     *)
(* for task = None, else rows, the list of [channel1, channel2] pairs.     *)
(* The returned tensor is modelled by its channel axis: entry k names the  *)
(* pair <<channel of X1, channel of X2>> that the unrolled combiner        *)
(* couples into output channel k (0-based channels, listed in order).      *)

NoTask == [is_none |-> TRUE, rows |-> <<>>]
Task(rows) == [is_none |-> FALSE, rows |-> rows]

\* lines 323-331: the all-pairs expansion; after repeat and reshape, flat
\* channel k holds X1 channel k div c2 and X2 channel k mod c2
each_with_each(c1, c2) ==
    [n \in 1..(c1 * c2) |-> <<(n - 1) \div c2, (n - 1) % c2>>]

\* forward, lines 321-335: with a task, line 333 reads the local first
\* before any assignment to it
single_forward(tsk, c1, c2) ==
    IF tsk.is_none THEN Return(each_with_each(c1, c2))
    ELSE Raise("UnboundLocalError")

----------------------------------------------------------------------------
(* ClebschCombining, lines 339-376.  shape is clebsch.shape[0..2]; a key   *)
(* '{}_{}_{}'.format(l1, l2, lambd) is the tuple <<l1, l2, lambd>>; the    *)
(* ModuleDict is the list of its keys in insertion order.                  *)

\* insufficient with a fault: the comparison is off by one
insufficient_gt(shape, lam) == lam > shape[3]

\* line 351
insufficient(shape, lam) == lam >= shape[3]

\* lines 348-355: the loop over lambd, from lam up
RECURSIVE init_lambd_loop(_, _, _, _, _, _)
init_lambd_loop(shape, lmax, l1, l2, lam, keys) ==
    IF lam > Min(l1 + l2, lmax) THEN Return(keys)
    ELSE IF insufficient(shape, lam) THEN Raise("ValueError")
    ELSE init_lambd_loop(shape, lmax, l1, l2, lam + 1,
             IF <<l1, l2, lam>> \in Range(keys) THEN keys
             ELSE Append(keys, <<l1, l2, lam>>))

\* lines 347-355: the loop over l2
RECURSIVE init_l2_loop(_, _, _, _, _)
init_l2_loop(shape, lmax, l1, l2, keys) ==
    IF l2 >= shape[2] THEN Return(keys)
    ELSE LET r == init_lambd_loop(shape, lmax, l1, l2, Abs(l1 - l2), keys)
         IN  IF r.raised # None THEN r
             ELSE init_l2_loop(shape, lmax, l1, l2 + 1, r.value)

\* lines 346-355: the loop over l1
RECURSIVE init_l1_loop(_, _, _, _)
init_l1_loop(shape, lmax, l1, keys) ==
    IF l1 >= shape[1] THEN Return(keys)
    ELSE LET r == init_l2_loop(shape, lmax, l1, 0, keys)
         IN  IF r.raised # None THEN r
             ELSE init_l1_loop(shape, lmax, l1 + 1, r.value)

\* __init__, lines 340-355
combining_init(shape, lmax) == init_l1_loop(shape, lmax, 0, <<>>)

(* forward, lines 359-376.  A feature mapping is the list of its items     *)
(* <<l, channels>> in the dict's iteration (insertion) order.  A visit is  *)
(* <<l1, l2, lambd, channels1, channels2>>.                                *)

\* line 368: the orders lambd visited for one (l1, l2)
lambd_visits(e1, e2, lmax) ==
    [n \in 1..Max(0, Min(e1[1] + e2[1], lmax) - Abs(e1[1] - e2[1]) + 1) |->
        <<e1[1], e2[1], Abs(e1[1] - e2[1]) + n - 1, e1[2], e2[2]>>]

\* lines 365-370: the loop over the keys of X2
RECURSIVE key2_loop(_, _, _, _)
key2_loop(e1, B, j, lmax) ==
    IF j > Len(B) THEN <<>>
    ELSE lambd_visits(e1, B[j], lmax) \o key2_loop(e1, B, j + 1, lmax)

\* lines 364-370: the loop over the keys of X1
RECURSIVE key1_loop(_, _, _, _)
key1_loop(A, B, i, lmax) ==
    IF i > Len(A) THEN <<>>
    ELSE key2_loop(A[i], B, 1, lmax) \o key1_loop(A, B, i + 1, lmax)

\* line 370: the channels one visit appends, tagged with their (l1, l2)
block(v) ==
    LET out == single_forward(NoTask, v[4], v[5]).value
    IN  [n \in 1..Len(out) |-> <<v[1], v[2], out[n][1], out[n][2]>>]

\* line 375: torch.cat of the blocks of one lambd along the channel axis
RECURSIVE cat(_)
cat(visits) ==
    IF visits = <<>> THEN <<>>
    ELSE block(Head(visits)) \o cat(Tail(visits))

combining_forward(keys, lmax, A, B) ==
    LET visits == key1_loop(A, B, 1, lmax)
        OfOrder(lam) ==
            LET Is(v) == v[3] = lam IN SelectSeq(visits, Is)
    IN  IF \E n \in 1..Len(visits) :
               <<visits[n][1], visits[n][2], visits[n][3]>> \notin Range(keys)
        THEN Raise("KeyError")
        ELSE IF \E lam \in 0..lmax : OfOrder(lam) = <<>>
        THEN Raise("RuntimeError")      \* torch.cat of an empty list
        ELSE Return([lam \in 0..lmax |-> cat(OfOrder(lam))])

----------------------------------------------------------------------------
(* Per-atom tensors.  A tensor's row axis is a sequence (row r of the      *)
(* source is entry r + 1); index arrays hold the source's 0-based values.  *)
(* A row of a feature tensor is one integer: the operations below act on   *)
(* whole rows.  A feature mapping is a function from its keys to tensors.  *)

\* the keys of a feature mapping in the dict's iteration order: the mappings
\* of the model are built with "a" inserted before "b"
dict_keys(m) ==
    LET Has(key) == key \in DOMAIN m IN SelectSeq(<<"a", "b">>, Has)

RECURSIVE SeqSum(_)
SeqSum(q) == IF q = <<>> THEN 0 ELSE Head(q) + SeqSum(Tail(q))

\* np.unique: the sorted distinct labels
RECURSIVE SortedSeq(_)
SortedSeq(S) ==
    IF S = {} THEN <<>>
    ELSE LET least == CHOOSE x \in S : \A y \in S : x <= y
         IN  <<least>> \o SortedSeq(S \ {least})
np_unique(labels) == SortedSeq(Range(labels))

\* value[mask]: the rows at the True positions, in order
RECURSIVE masked_select(_, _)
masked_select(value, mask) ==
    IF value = <<>> THEN <<>>
    ELSE (IF Head(mask) THEN <<Head(value)>> ELSE <<>>)
         \o masked_select(Tail(value), Tail(mask))

----------------------------------------------------------------------------
(* CentralSplitter.forward, lines 132-142.                                 *)

\* line 140
splitter_mask(labels, specie) == [r \in 1..Len(labels) |-> labels[r] = specie]

splitter_forward(feats, labels) ==
    LET all_species == np_unique(labels)
    IN  [specie \in Range(all_species) |->
            [key \in DOMAIN feats |->
                masked_select(feats[key], splitter_mask(labels, specie))]]

----------------------------------------------------------------------------
(* CentralUniter.forward, lines 148-173.  The returned tensor of a key is  *)
(* a record: rows, and writes, how often each row has been assigned since  *)
(* torch.empty allocated it; garbage is what the allocation holds.         *)

\* line 170
uniter_mask(labels, specie) == [r \in 1..Len(labels) |-> specie = labels[r]]

\* the number of True entries among the first r of mask
RECURSIVE true_count(_, _)
true_count(mask, r) ==
    IF r = 0 THEN 0
    ELSE true_count(mask, r - 1) + (IF mask[r] THEN 1 ELSE 0)

\* masked_assign with a fault: the rows are written from the top of the tensor
masked_assign_prefix(dst, mask, src) ==
    [rows |-> [r \in 1..Len(dst.rows) |->
                  IF r <= Len(src) THEN src[r] ELSE dst.rows[r]],
     writes |-> [r \in 1..Len(dst.rows) |->
                  dst.writes[r] + (IF r <= Len(src) THEN 1 ELSE 0)]]

\* line 171: result[key][mask] = src, the k-th True position receives src[k]
masked_assign(dst, mask, src) ==
    [rows |-> [r \in 1..Len(dst.rows) |->
                  IF mask[r] THEN src[true_count(mask, r)] ELSE dst.rows[r]],
     writes |-> [r \in 1..Len(dst.rows) |->
                  dst.writes[r] + (IF mask[r] THEN 1 ELSE 0)]]

\* lines 168-171: the loop over the species of features, in key order
RECURSIVE unite_loop(_, _, _, _, _)
unite_loop(parts, labels, species, n, res) ==
    IF n > Len(species) THEN Return(res)
    ELSE LET specie == species[n]
             mask == uniter_mask(labels, specie)
         IN  IF \E key \in DOMAIN parts[specie] :
                    \/ key \notin DOMAIN res
                    \/ Len(mask) # Len(res[key].rows)
                    \/ true_count(mask, Len(mask)) # Len(parts[specie][key])
             THEN Raise("IndexError")       \* shape mismatch of the assignment
             ELSE unite_loop(parts, labels, species, n + 1,
                      [key \in DOMAIN res |->
                          IF key \in DOMAIN parts[specie]
                          THEN masked_assign(res[key], mask, parts[specie][key])
                          ELSE res[key]])

uniter_forward(parts, labels, garbage) ==
    LET all_species == np_unique(labels)
    IN  IF all_species = <<>> THEN Raise("IndexError")          \* line 150
        ELSE IF Range(all_species) \ DOMAIN parts # {}
        THEN Raise("KeyError")                                   \* line 153, 160
        ELSE LET specie == all_species[1]
                 num(key) ==                                     \* lines 159-163
                     SeqSum([n \in 1..Len(all_species) |->
                         IF key \in DOMAIN parts[all_species[n]]
                         THEN Len(parts[all_species[n]][key]) ELSE 0])
                 empty == [key \in DOMAIN parts[specie] |->      \* line 166
                     [rows |-> [r \in 1..num(key) |-> garbage],
                      writes |-> [r \in 1..num(key) |-> 0]]]
             IN  unite_loop(parts, labels, SortedSeq(DOMAIN parts), 1, empty)

----------------------------------------------------------------------------
(* Accumulator.forward, lines 102-125.                                     *)

SeqMax(q) == CHOOSE x \in Range(q) : \A y \in Range(q) : x >= y

\* n_structures with a fault: the + 1 is lost
n_structures_max(indices) == SeqMax(indices)

\* line 112
n_structures(indices) == SeqMax(indices) + 1

\* result.index_add_(0, index, source) on a tensor of integer rows,
\* source rows r..end; res is 0-based by structure
RECURSIVE row_index_add_(_, _, _, _)
row_index_add_(res, index, source, r) ==
    IF r > Len(index) THEN res
    ELSE row_index_add_([res EXCEPT ![index[r]] = @ + source[r]],
                        index, source, r + 1)

accumulator_forward(feats, indices) ==
    IF DOMAIN feats = {} THEN Raise("IndexError")                \* line 104
    ELSE IF indices = <<>> THEN Raise("RuntimeError")            \* line 112
    ELSE LET n == n_structures(indices)
         IN  IF \E r \in 1..Len(indices) : indices[r] < 0 \/ indices[r] >= n
             THEN Raise("IndexError")                            \* line 124
             ELSE Return([key \in DOMAIN feats |->
                      row_index_add_([i \in 0..(n - 1) |-> 0],
                                     indices, feats[key], 1)])

----------------------------------------------------------------------------
(* get_forces, lines 24-46.  target_X_der[key] has one row per atom, a row *)
(* being the list of its feature components; X_pos_der[key] has one row    *)
(* per (central atom, displaced atom) pair, a row being, per direction,    *)
(* the list of feature components.  The force tensor has rows of           *)
(* NumDirections columns.                                                  *)

NumDirections == 3

\* torch.index_select(t, 0, index), lines 31-32
index_select(t, index) == [k \in 1..Len(index) |-> t[index[k] + 1]]

\* contribution with a fault: the sign is lost
contribution_unsigned(aligned_row, der_row) ==
    [d \in 1..NumDirections |->
        SeqSum([f \in 1..Len(aligned_row) |-> aligned_row[f] * der_row[d][f]])]

\* lines 37-40: one row of contributions[key]
contribution(aligned_row, der_row) ==
    [d \in 1..NumDirections |->
        -SeqSum([f \in 1..Len(aligned_row) |-> aligned_row[f] * der_row[d][f]])]

\* line 45: forces_predictions.index_add_(0, derivative_indices, source),
\* source rows k..end
RECURSIVE force_index_add_(_, _, _, _)
force_index_add_(res, index, source, k) ==
    IF k > Len(index) THEN res
    ELSE force_index_add_(
             [res EXCEPT ![index[k] + 1] =
                 [d \in 1..NumDirections |-> @[d] + source[k][d]]],
             index, source, k + 1)

\* lines 44-45: the loop over the keys
RECURSIVE forces_key_loop(_, _, _, _, _)
forces_key_loop(res, keys, n, contributions, index) ==
    IF n > Len(keys) THEN res
    ELSE forces_key_loop(
             force_index_add_(res, index, contributions[keys[n]], 1),
             keys, n + 1, contributions, index)

get_forces(s_indices, t_der, p_der, c_indices, d_indices) ==
    LET rows == Len(s_indices)                  \* structural_indices.shape[0]
    IN  IF DOMAIN p_der \ DOMAIN t_der # {} THEN Raise("KeyError")
        ELSE IF \E key \in DOMAIN t_der : \E k \in 1..Len(c_indices) :
                    c_indices[k] < 0 \/ c_indices[k] >= Len(t_der[key])
        THEN Raise("IndexError")                                \* line 31
        ELSE IF \E k \in 1..Len(d_indices) :
                    d_indices[k] < 0 \/ d_indices[k] >= rows
        THEN Raise("IndexError")                                \* line 45
        ELSE LET derivatives_aligned ==
                     [key \in DOMAIN t_der |-> index_select(t_der[key], c_indices)]
                 contributions ==
                     [key \in DOMAIN p_der |->
                         [k \in 1..Len(p_der[key]) |->
                             contribution(derivatives_aligned[key][k],
                                          p_der[key][k])]]
                 zero == [r \in 1..rows |-> [d \in 1..NumDirections |-> 0]]
             IN  Return(forces_key_loop(zero, dict_keys(p_der), 1,
                                        contributions, d_indices))

----------------------------------------------------------------------------
(* Values the variables hold while another component is exercised.         *)

CompressIdle == sequence = <<>> /\ epsilon = 0 /\ compressed = None
UnrolledIdle ==
    /\ clebsch = None /\ lambd = 0 /\ unrolled = None
    /\ X1 = None /\ X2 = None /\ result = <<>>
SingleIdle == task = NoTask /\ chan1 = 0 /\ chan2 = 0 /\ single_out = None
RegistryIdle ==
    /\ table_shape = None /\ lambd_max = 0 /\ single_combiners = None
    /\ F1 = <<>> /\ F2 = <<>> /\ combined = None
SpeciesIdle ==
    /\ features = None /\ central_species = <<>>
    /\ splitted = None /\ united = None
AccumIdle == structural_indices = <<>> /\ accumulated = None
ForcesIdle ==
    /\ target_X_der = None /\ X_pos_der = None /\ central_indices = <<>>
    /\ derivative_indices = <<>> /\ forces_predictions = None

----------------------------------------------------------------------------
(* The compressor on its own: any list of triples, then compress.          *)

MultValues == {<<2, 0>>, <<-2, 0>>, <<1, 0>>}     \* 1, -1, 1/2
Triples == (0..MaxIndex) \X (0..MaxIndex) \X MultValues
Lists(S, n) == UNION {[1..k -> S] : k \in 0..n}

InitCompress ==
    /\ pc = "start"
    /\ sequence \in Lists(Triples, MaxLen)
    /\ epsilon \in {0, 1}
    /\ compressed = None
    /\ UnrolledIdle /\ SingleIdle /\ RegistryIdle
    /\ SpeciesIdle /\ AccumIdle /\ ForcesIdle

Compress ==
    /\ pc = "start"
    /\ compressed' = compress(sequence, epsilon)
    /\ pc' = "done"
    /\ UNCHANGED <<sequence, epsilon, unrolled_vars, single_vars,
                   registry_vars, species_vars, accum_vars, forces_vars>>

NextCompress == Compress
SpecCompress == InitCompress /\ [][NextCompress]_vars

(* What the compressor is specified to return.                             *)
PairAt(seq, i) == <<seq[i][1], seq[i][2]>>
PairsOf(seq) == {PairAt(seq, i) : i \in 1..Len(seq)}
FirstSeen(seq, p) ==
    CHOOSE i \in 1..Len(seq) :
        PairAt(seq, i) = p /\ \A j \in 1..(i - 1) : PairAt(seq, j) # p
RECURSIVE TotalUpTo(_, _, _)
TotalUpTo(seq, n, p) ==
    IF n = 0 THEN Num(0)
    ELSE NumAdd(TotalUpTo(seq, n - 1, p),
                IF PairAt(seq, n) = p THEN seq[n][3] ELSE Num(0))
Total(seq, p) == TotalUpTo(seq, Len(seq), p)
Surviving(seq, eps) ==
    {p \in PairsOf(seq) : NumGt(np_abs(Total(seq, p)), eps)}

\* C1: compress returns one entry per distinct (m1, m2) pair whose total
\* multiplier exceeds epsilon in absolute value, carrying the sum of ALL the
\* pair's multipliers, in the order of first occurrence; a pair whose total
\* is within epsilon (in particular zero) is absent.
C1_CompressContract ==
    pc = "done" =>
        /\ PairsOf(compressed) = Surviving(sequence, epsilon)
        /\ Len(compressed) = Cardinality(Surviving(sequence, epsilon))
        /\ \A k \in 1..Len(compressed) :
               compressed[k][3] = Total(sequence, PairAt(compressed, k))
        /\ \A k, n \in 1..Len(compressed) :
               k < n => FirstSeen(sequence, PairAt(compressed, k))
                            < FirstSeen(sequence, PairAt(compressed, n))

----------------------------------------------------------------------------
(* One unrolled combiner: a table slice for (l1, l2, lambd), the           *)
(* constructor, then forward on either device with the same inputs.        *)

MaxL == 1           \* l1 and l2 range over 0..MaxL
MaxRows == 1        \* X1 and X2 have 1..MaxRows (batch, channel) rows

Devices == {"cuda", "cpu"}
Seeds == 0..2
\* the table slice with entries in -1..1 picked by the seeds a, b, c
SeedTable(l1, l2, a, b, c) ==
    [i \in 0..(2 * l1) |-> [j \in 0..(2 * l2) |-> ((a * i + b * j + c) % 3) - 1]]
\* a feature tensor with entries in -1..2 picked by the seed s
SeedTensor(rows, l, s, step) ==
    [r \in 0..(rows - 1) |-> [m \in 0..(2 * l) |-> ((s + step * r + m * m) % 4) - 1]]

InitUnrolled ==
    /\ pc = "start"
    /\ \E l1, l2 \in 0..MaxL :
         /\ lambd \in Abs(l1 - l2)..(l1 + l2)
         /\ clebsch \in {SeedTable(l1, l2, a, b, c) : a, b, c \in Seeds}
         /\ \E rows \in 1..MaxRows :
              /\ X1 \in {SeedTensor(rows, l1, s, 1) : s \in Seeds}
              /\ X2 \in {SeedTensor(rows, l2, s, 3) : s \in Seeds}
    /\ unrolled = None
    /\ result = <<>>
    /\ CompressIdle /\ SingleIdle /\ RegistryIdle
    /\ SpeciesIdle /\ AccumIdle /\ ForcesIdle

others_unrolled ==
    <<compress_vars, single_vars, registry_vars, species_vars, accum_vars,
      forces_vars>>

ConstructUnrolled ==
    /\ pc = "start"
    /\ unrolled' = unrolled_init(clebsch, lambd)
    /\ pc' = "constructed"
    /\ UNCHANGED <<clebsch, lambd, X1, X2, result, others_unrolled>>

ForwardUnrolled ==
    /\ pc = "constructed"
    /\ \E device \in Devices :
         /\ device \notin DOMAIN result
         /\ result' = result @@ (device :> unrolled_forward(unrolled, X1, X2, device))
    /\ UNCHANGED <<pc, clebsch, lambd, unrolled, X1, X2, others_unrolled>>

NextUnrolled == ConstructUnrolled \/ ForwardUnrolled
SpecUnrolled == InitUnrolled /\ [][NextUnrolled]_vars

(* What one output slot is specified to hold: the sum over the triples     *)
(* (m1, m2, c) of transformation[mu] of X1[r][m1] * X2[r][m2] * c.         *)
RECURSIVE SlotSum(_, _, _, _, _)
SlotSum(triples, A, B, r, n) ==
    IF n = 0 THEN Num(0)
    ELSE LET el == triples[n]
         IN  NumAdd(SlotSum(triples, A, B, r, n - 1),
                    <<A[r][el[1]] * B[r][el[2]] * el[3][1],
                      A[r][el[1]] * B[r][el[2]] * el[3][2]>>)

BothRun == Devices \subseteq DOMAIN result

\* C2: on the same coefficient sets and the same inputs, the
\* gather-multiply-scatter branch and the direct-accumulation branch return
\* the same tensor, and slot mu of it is the sum over the triples (m1, m2, c)
\* of transformation[mu] of X1[:, :, m1] * X2[:, :, m2] * c.
C2_BranchesAgree ==
    BothRun =>
        /\ result["cuda"] = result["cpu"]
        /\ \A d \in Devices :
             /\ result[d].raised = None
             /\ DOMAIN result[d].value = Rows(X1)
             /\ \A r \in Rows(X1) :
                  /\ DOMAIN result[d].value[r] = 0..(2 * lambd)
                  /\ \A mu \in 0..(2 * lambd) :
                       result[d].value[r][mu] =
                           SlotSum(unrolled.transformation[mu], X1, X2, r,
                                   Len(unrolled.transformation[mu]))

\* C2 witness: both branches ran on a set with several triples in one slot
\* and produced a non-zero entry there.
C2_Witness ==
    /\ BothRun
    /\ \E mu \in 0..(2 * lambd) :
         /\ Len(unrolled.transformation[mu]) >= 2
         /\ \E r \in Rows(X1) : result["cuda"].value[r][mu] # Num(0)

\* C10: for |l1 - l2| <= lambda <= l1 + l2 and a table slice of shape
\* (2*l1+1, 2*l2+1), precompute_transformation returns exactly 2*lambda+1
\* coefficient sets, reads the table only at positions inside it, and every
\* returned triple has 0 <= m1 <= 2*l1 and 0 <= m2 <= 2*l2.
C10_IndicesInRange ==
    pc = "constructed" =>
        /\ DOMAIN unrolled.transformation = 0..(2 * lambd)
        /\ Cardinality(DOMAIN unrolled.transformation) = 2 * lambd + 1
        /\ \A rd \in table_reads(unrolled.l1, unrolled.l2, lambd) :
             /\ 0 <= rd[1] /\ rd[1] < shape0(clebsch)
             /\ 0 <= rd[2] /\ rd[2] < shape1(clebsch)
        /\ \A mu \in DOMAIN unrolled.transformation :
             \A k \in 1..Len(unrolled.transformation[mu]) :
                 /\ 0 <= unrolled.transformation[mu][k][1]
                 /\ unrolled.transformation[mu][k][1] <= 2 * unrolled.l1
                 /\ 0 <= unrolled.transformation[mu][k][2]
                 /\ unrolled.transformation[mu][k][2] <= 2 * unrolled.l2

\* C10 witness: a constructed combiner with l1, l2 >= 1 whose sets use the
\* first and the last index of both inputs and whose loops read a corner of
\* the table.
C10_Witness ==
    /\ pc = "constructed"
    /\ unrolled.l1 >= 1 /\ unrolled.l2 >= 1 /\ lambd >= 1
    /\ <<2 * unrolled.l1, 0>> \in table_reads(unrolled.l1, unrolled.l2, lambd)
    /\ \E mu \in DOMAIN unrolled.transformation :
         \E k \in 1..Len(unrolled.transformation[mu]) :
             /\ unrolled.transformation[mu][k][1] = 2 * unrolled.l1
             /\ unrolled.transformation[mu][k][2] = 0

----------------------------------------------------------------------------
(* One channel-expanding combiner, with or without a task list.            *)

MaxChan == 3        \* X1 and X2 have 1..MaxChan channels
MaxTask == 2        \* a task list has 1..MaxTask rows

InitSingle ==
    /\ pc = "start"
    /\ chan1 \in 1..MaxChan
    /\ chan2 \in 1..MaxChan
    /\ task \in {NoTask} \cup
           {Task(rows) : rows \in
               UNION {[1..n -> (0..(chan1 - 1)) \X (0..(chan2 - 1))] :
                      n \in 1..MaxTask}}
    /\ single_out = None
    /\ CompressIdle /\ UnrolledIdle /\ RegistryIdle
    /\ SpeciesIdle /\ AccumIdle /\ ForcesIdle

ForwardSingle ==
    /\ pc = "start"
    /\ single_out' = single_forward(task, chan1, chan2)
    /\ pc' = "done"
    /\ UNCHANGED <<task, chan1, chan2, compress_vars, unrolled_vars,
                   registry_vars, species_vars, accum_vars, forces_vars>>

NextSingle == ForwardSingle
SpecSingle == InitSingle /\ [][NextSingle]_vars

\* C5: with an explicit task list, forward returns one output channel per
\* task entry, channel k coupling channel task[k][0] of X1 with channel
\* task[k][1] of X2, and nothing else.
C5_TaskChannels ==
    (pc = "done" /\ ~task.is_none) =>
        /\ single_out.raised = None
        /\ single_out.value = task.rows

----------------------------------------------------------------------------
(* The registry: construction from a table shape and lambd_max, then       *)
(* forward on two feature mappings whose keys lie in the table's range.    *)

MaxDim == 2         \* clebsch.shape[0] and [1] range over 0..MaxDim,
                    \* clebsch.shape[2] over 0..MaxDim+1, lambd_max over
                    \* -1..MaxDim
MaxFeatChan == 2    \* the order-0 tensor of a mapping has 1..MaxFeatChan
                    \* channels, the order-l tensor l more

Injective(f) == \A i, j \in DOMAIN f : f[i] = f[j] => i = j
\* the mappings with keys among 0..n-1, in every insertion order
Mappings(n) ==
    {[k \in DOMAIN ls |-> <<ls[k], c + ls[k]>>] :
        ls \in {q \in Lists(0..(n - 1), n) : Injective(q)},
        c \in 1..MaxFeatChan}

InitRegistry ==
    /\ pc = "start"
    /\ table_shape \in (0..MaxDim) \X (0..MaxDim) \X (0..(MaxDim + 1))
    /\ lambd_max \in (-1)..MaxDim
    /\ single_combiners = None
    /\ F1 = <<>> /\ F2 = <<>> /\ combined = None
    /\ CompressIdle /\ UnrolledIdle /\ SingleIdle
    /\ SpeciesIdle /\ AccumIdle /\ ForcesIdle

others_registry ==
    <<compress_vars, unrolled_vars, single_vars, species_vars, accum_vars,
      forces_vars>>

ConstructCombining ==
    /\ pc = "start"
    /\ single_combiners' = combining_init(table_shape, lambd_max)
    /\ pc' = "constructed"
    /\ UNCHANGED <<table_shape, lambd_max, F1, F2, combined, others_registry>>

ForwardCombining ==
    /\ pc = "constructed"
    /\ single_combiners.raised = None
    /\ \E A \in Mappings(table_shape[1]), B \in Mappings(table_shape[2]) :
         /\ F1' = A
         /\ F2' = B
         /\ combined' = combining_forward(single_combiners.value, lambd_max, A, B)
    /\ pc' = "forwarded"
    /\ UNCHANGED <<table_shape, lambd_max, single_combiners, others_registry>>

NextRegistry == ConstructCombining \/ ForwardCombining
SpecRegistry == InitRegistry /\ [][NextRegistry]_vars

\* the triples the registry is specified to hold
ValidTriples(shape, lmax) ==
    {t \in (0..(shape[1] - 1)) \X (0..(shape[2] - 1)) \X (0..Max(lmax, 0)) :
        Abs(t[1] - t[2]) <= t[3] /\ t[3] <= Min(t[1] + t[2], lmax)}

\* C6: construction either raises the configuration error, exactly when
\* some triple (l1, l2, lambda) with l1, l2 inside the table's first two
\* dimensions and |l1 - l2| <= lambda <= min(l1 + l2, lambd_max) has lambda
\* outside the table's third dimension, or succeeds with exactly one
\* combiner per such triple and no other key.
C6_ConstructionOutcome ==
    pc \in {"constructed", "forwarded"} =>
        /\ single_combiners.raised \in {None, "ValueError"}
        /\ single_combiners.raised = "ValueError" <=>
               \E t \in ValidTriples(table_shape, lambd_max) :
                   t[3] >= table_shape[3]
        /\ single_combiners.raised = None =>
               /\ Range(single_combiners.value)
                      = ValidTriples(table_shape, lambd_max)
               /\ Injective(single_combiners.value)

\* C6 witness: the error is raised by a table whose third dimension holds
\* some but not all of the orders lambd_max asks for.
C6_Witness ==
    /\ pc = "constructed"
    /\ single_combiners.raised = "ValueError"
    /\ table_shape[3] >= 1
    /\ \E t \in ValidTriples(table_shape, lambd_max) : t[3] < table_shape[3]

\* the channel count the registry is specified to return for one lambda
RECURSIVE ChannelSum(_, _, _, _, _)
ChannelSum(A, B, lmax, lam, n) ==
    IF n = 0 THEN 0
    ELSE LET e1 == A[((n - 1) \div Len(B)) + 1]
             e2 == B[((n - 1) % Len(B)) + 1]
         IN  ChannelSum(A, B, lmax, lam, n - 1) +
             (IF Abs(e1[1] - e2[1]) <= lam /\ lam <= Min(e1[1] + e2[1], lmax)
              THEN e1[2] * e2[2] ELSE 0)

\* C3: forward returns, for every lambda in 0..lambd_max, a tensor whose
\* channel count is the sum of channels(X1[l1]) * channels(X2[l2]) over the
\* pairs of keys with |l1 - l2| <= lambda <= min(l1 + l2, lambd_max),
\* including the orders lambda no pair contributes to.
C3_ChannelCounts ==
    pc = "forwarded" =>
        /\ combined.raised = None
        /\ DOMAIN combined.value = 0..lambd_max
        /\ \A lam \in 0..lambd_max :
               Len(combined.value[lam]) =
                   ChannelSum(F1, F2, lambd_max, lam, Len(F1) * Len(F2))

\* the counts of the calls that return
ReturnedChannelCounts ==
    (pc = "forwarded" /\ combined.raised = None) =>
        /\ DOMAIN combined.value = 0..lambd_max
        /\ \A lam \in 0..lambd_max :
               Len(combined.value[lam]) =
                   ChannelSum(F1, F2, lambd_max, lam, Len(F1) * Len(F2))

\* C4: for every lambda the channel blocks of the (l1, l2) pairs are
\* concatenated in order sorted by l1 and then l2, whatever the order in
\* which the keys were inserted into X1 and X2.
C4_SortedBlocks ==
    (pc = "forwarded" /\ combined.raised = None) =>
        \A lam \in 0..lambd_max :
            \A m, n \in 1..Len(combined.value[lam]) :
                m < n =>
                    \/ combined.value[lam][m][1] < combined.value[lam][n][1]
                    \/ /\ combined.value[lam][m][1] = combined.value[lam][n][1]
                       /\ combined.value[lam][m][2] <= combined.value[lam][n][2]

----------------------------------------------------------------------------
(* Species routing: split by species, then unite the untouched parts.      *)

MaxAtoms == 3       \* a batch has 1..MaxAtoms atom rows
MaxSpecies == 2     \* species labels range over 1..MaxSpecies
MaxValue == 1       \* a feature row ranges over 0..MaxValue
MaxStruct == 2      \* structural indices range over 0..MaxStruct

\* the mappings with one key, and those with a second key whose tensor
\* differs from the first in every row
FeatureMappings(n) ==
    {[key \in {"a"} |-> t] : t \in [1..n -> 0..MaxValue]} \cup
    {[key \in {"a", "b"} |->
         IF key = "a" THEN t ELSE [r \in 1..n |-> MaxValue - t[r]]] :
     t \in [1..n -> 0..MaxValue]}

InitSpecies ==
    /\ pc = "start"
    /\ \E n \in 1..MaxAtoms :
         /\ features \in FeatureMappings(n)
         /\ central_species \in [1..n -> 1..MaxSpecies]
    /\ splitted = None /\ united = None
    /\ CompressIdle /\ UnrolledIdle /\ SingleIdle /\ RegistryIdle
    /\ AccumIdle /\ ForcesIdle

others_species ==
    <<compress_vars, unrolled_vars, single_vars, registry_vars, accum_vars,
      forces_vars>>

Split ==
    /\ pc = "start"
    /\ splitted' = splitter_forward(features, central_species)
    /\ pc' = "split"
    /\ UNCHANGED <<features, central_species, united, others_species>>

Unite ==
    /\ pc = "split"
    /\ \E garbage \in 0..MaxValue :
         united' = uniter_forward(splitted, central_species, garbage)
    /\ pc' = "united"
    /\ UNCHANGED <<features, central_species, splitted, others_species>>

NextSpecies == Split \/ Unite
SpecSpecies == InitSpecies /\ [][NextSpecies]_vars

----------------------------------------------------------------------------
(* Structure pooling.                                                      *)

InitAccumulator ==
    /\ pc = "start"
    /\ \E n \in 1..MaxAtoms :
         /\ features \in FeatureMappings(n)
         /\ structural_indices \in [1..n -> 0..MaxStruct]
    /\ accumulated = None
    /\ central_species = <<>> /\ splitted = None /\ united = None
    /\ CompressIdle /\ UnrolledIdle /\ SingleIdle /\ RegistryIdle
    /\ ForcesIdle

Accumulate ==
    /\ pc = "start"
    /\ accumulated' = accumulator_forward(features, structural_indices)
    /\ pc' = "done"
    /\ UNCHANGED <<structural_indices, species_vars, compress_vars,
                   unrolled_vars, single_vars, registry_vars, forces_vars>>

NextAccumulator == Accumulate
SpecAccumulator == InitAccumulator /\ [][NextAccumulator]_vars

\* the rows of structure s, as the specification sums them
StructureSum(value, indices, s) ==
    SeqSum([r \in 1..Len(indices) |-> IF indices[r] = s THEN value[r] ELSE 0])

\* C8: for a non-empty mapping and non-negative structural indices, one per
\* atom row, every returned tensor has exactly 1 + max(structural_index)
\* rows, row s is the sum of the input rows r with structural_index[r] = s
\* (zero for a structure without atoms), and the sum of all output entries
\* equals the sum of all input entries.
C8_AccumulatorSums ==
    pc = "done" =>
        /\ accumulated.raised = None
        /\ DOMAIN accumulated.value = DOMAIN features
        /\ \A key \in DOMAIN features :
             /\ DOMAIN accumulated.value[key] = 0..SeqMax(structural_indices)
             /\ \A s \in 0..SeqMax(structural_indices) :
                    accumulated.value[key][s] =
                        StructureSum(features[key], structural_indices, s)
             /\ SeqSum([n \in 1..(SeqMax(structural_indices) + 1) |->
                           accumulated.value[key][n - 1]])
                    = SeqSum(features[key])

\* C8 witness: two atoms pooled into one structure, another structure left
\* without atoms.
C8_Witness ==
    /\ pc = "done"
    /\ accumulated.raised = None
    /\ structural_indices = <<2, 0, 2>>
    /\ features["a"] = <<1, 1, 1>>
    /\ accumulated.value["a"] = (0 :> 1 @@ 1 :> 0 @@ 2 :> 2)

----------------------------------------------------------------------------
(* Forces: index arrays of a batch and the two derivative tensors.         *)

MaxForceAtoms == 2  \* a batch has 1..MaxForceAtoms atoms
MaxPairs == 2       \* and 1..MaxPairs (central, displaced) pair rows
MaxFeat == 2        \* a feature row has 1..MaxFeat components

\* atoms listed structure by structure: 0, then 0 or 1 more per atom
StructureArrays(n) ==
    {q \in [1..n -> 0..(n - 1)] :
        q[1] = 0 /\ \A r \in 1..(n - 1) : q[r + 1] - q[r] \in {0, 1}}
SeedTarget(keys, atoms, feat, s) ==
    [key \in keys |->
        [a \in 1..atoms |->
            [f \in 1..feat |-> ((s + a + f + (IF key = "a" THEN 0 ELSE 1)) % 3) - 1]]]
SeedPosDer(keys, pairs, feat, s) ==
    [key \in keys |->
        [k \in 1..pairs |->
            [d \in 1..NumDirections |->
                [f \in 1..feat |->
                    ((s + k + 2 * d + f * f + (IF key = "a" THEN 0 ELSE 2)) % 4) - 1]]]]

InitForces ==
    /\ pc = "start"
    /\ \E atoms \in 1..MaxForceAtoms, pairs \in 1..MaxPairs, feat \in 1..MaxFeat,
          keys \in {{"a"}, {"a", "b"}} :
         /\ structural_indices \in StructureArrays(atoms)
         /\ central_indices \in [1..pairs -> 0..(atoms - 1)]
         /\ derivative_indices \in [1..pairs -> 0..(atoms - 1)]
         /\ target_X_der \in {SeedTarget(keys, atoms, feat, s) : s \in Seeds}
         /\ X_pos_der \in {SeedPosDer(keys, pairs, feat, s) : s \in Seeds}
    /\ forces_predictions = None
    /\ accumulated = None
    /\ CompressIdle /\ UnrolledIdle /\ SingleIdle /\ RegistryIdle
    /\ SpeciesIdle

GetForces ==
    /\ pc = "start"
    /\ forces_predictions' =
           get_forces(structural_indices, target_X_der, X_pos_der,
                      central_indices, derivative_indices)
    /\ pc' = "done"
    /\ UNCHANGED <<structural_indices, accumulated, target_X_der, X_pos_der,
                   central_indices, derivative_indices, compress_vars,
                   unrolled_vars, single_vars, registry_vars, species_vars>>

NextForces == GetForces
SpecForces == InitForces /\ [][NextForces]_vars

\* the force on atom row d in direction dir, as specified: the sum over the
\* keys and the pair rows k with derivative_indices[k] = d of the negated
\* contribution k
ExpectedForce(d, dir) ==
    SeqSum([n \in 1..Len(dict_keys(X_pos_der)) |->
        LET key == dict_keys(X_pos_der)[n]
        IN  SeqSum([k \in 1..Len(derivative_indices) |->
                IF derivative_indices[k] = d
                THEN -SeqSum([f \in 1..Len(X_pos_der[key][k][dir]) |->
                          target_X_der[key][central_indices[k] + 1][f]
                              * X_pos_der[key][k][dir][f]])
                ELSE 0])])

RowsAsSpecified ==
    /\ \A r \in 1..Len(forces_predictions.value) :
           DOMAIN forces_predictions.value[r] = 1..NumDirections
    /\ \A r \in 1..Len(forces_predictions.value), dir \in 1..NumDirections :
           forces_predictions.value[r][dir] = ExpectedForce(r - 1, dir)

\* C9 as stated: the force tensor has exactly 1 + max(structural_index)
\* rows (the number of structures) and 3 columns, row d being the sum over
\* the keys and the rows k with derivative_indices[k] = d of the negated
\* contribution k.
C9_RowsPerStructure ==
    pc = "done" =>
        /\ forces_predictions.raised = None
        /\ Len(forces_predictions.value) = 1 + SeqMax(structural_indices)
        /\ RowsAsSpecified

\* C9 as amended: the force tensor has exactly as many rows as
\* structural_indices has entries (one per atom) and 3 columns, row d being
\* the sum over the keys and the rows k with derivative_indices[k] = d of
\* the negated contribution k.
C9_RowsPerAtom ==
    pc = "done" =>
        /\ forces_predictions.raised = None
        /\ Len(forces_predictions.value) = Len(structural_indices)
        /\ RowsAsSpecified

\* C9 witness: two atoms of one structure, two pair rows adding into the
\* same force row, which ends non-zero.
C9_Witness ==
    /\ pc = "done"
    /\ forces_predictions.raised = None
    /\ structural_indices = <<0, 0>>
    /\ derivative_indices = <<1, 1>>
    /\ Len(forces_predictions.value) = 2
    /\ \E dir \in 1..NumDirections : forces_predictions.value[2][dir] # 0

====
